---- MODULE Spec2Model ----
(***************************************************************************)
(* Channel/topology model of hardnet.py: the link resolver                 *)
(* (HarDBlock.get_link), the block constructor (HarDBlock.__init__), the   *)
(* block executor (HarDBlock.forward) and the network assembler            *)
(* (HarDNet.__init__).  Tensors are represented by their channel count,    *)
(* which is the only thing the block bookkeeping depends on.  The growth   *)
(* multiplier grmul (1.0, 1.6, 1.7 in the source) is a rational <<n, d>>;  *)
(* the running width out_channels is the rational num/den.                 *)
(***************************************************************************)
EXTENDS Integers, Sequences, FiniteSets, TLC

\* Largest n_layers a block of the block machine is constructed with.
MaxLayers == 8

\* range(10) of the scale scan in get_link.
ScaleBound == 10

\* Inputs the block machine is driven with.
BaseChs == {20, 64}
GrowthRates == {10, 11, 14}
GrMuls == {<<1, 1>>, <<8, 5>>, <<17, 10>>}
NLayers == 0..MaxLayers

VARIABLES
    blk_pc,      \* "unbuilt" | "built": has HarDBlock.__init__ returned
    cfg,         \* the arguments __init__ was called with
    keepBase,    \* self.keepBase
    links,       \* self.links: one link list per layer
    layers,      \* self.layers: per layer the (inch, outch) its transform was built with
    out_channels,\* self.out_channels
    fwd_pc,      \* position inside forward: "idle" | "layers" | "done" | "error"
    layers_,     \* forward's local list layers_: channel count of each produced tensor
    out_sel,     \* indices forward appended to out_
    out_w,       \* channel count of the tensor forward returned
    net_pc,      \* position inside HarDNet.__init__
    net_args,    \* the arguments HarDNet.__init__ was called with
    hp,          \* the local hyperparameters of HarDNet.__init__
    base,        \* self.base: the stage list
    net_err      \* the exception HarDNet.__init__ raised, or "none"

blockVars == <<blk_pc, cfg, keepBase, links, layers, out_channels>>
fwdVars == <<fwd_pc, layers_, out_sel, out_w>>
netVars == <<net_pc, net_args, hp, base, net_err>>
vars == <<blk_pc, cfg, keepBase, links, layers, out_channels,
          fwd_pc, layers_, out_sel, out_w,
          net_pc, net_args, hp, base, net_err>>

----------------------------------------------------------------------------
(* Arithmetic helpers *)

\* 2 ** i
RECURSIVE Pow2(_)
Pow2(i) == IF i = 0 THEN 1 ELSE 2 * Pow2(i - 1)

\* Sum of a sequence of integers (channel count of torch.cat(seq, 1)).
RECURSIVE SumSeq(_)
SumSeq(s) == IF s = <<>> THEN 0 ELSE Head(s) + SumSeq(Tail(s))

----------------------------------------------------------------------------
(* HarDBlock.get_link *)

\* ScanStep with the scan started at scale 2 (range(1, 10)): no link to layer-1.
ScanStepSkipFirst(layer, i, acc) ==
    LET dv == Pow2(i) IN
    IF i > 0 /\ layer % dv = 0
    THEN [link |-> Append(acc.link, layer - dv),
          num  |-> acc.num * acc.gn,
          den  |-> acc.den * acc.gd,
          gn   |-> acc.gn,
          gd   |-> acc.gd]
    ELSE acc

\* ScanStep with link.insert(0, k) in place of link.append(k).
ScanStepPrepend(layer, i, acc) ==
    LET dv == Pow2(i) IN
    IF layer % dv = 0
    THEN [link |-> <<layer - dv>> \o acc.link,
          num  |-> IF i > 0 THEN acc.num * acc.gn ELSE acc.num,
          den  |-> IF i > 0 THEN acc.den * acc.gd ELSE acc.den,
          gn   |-> acc.gn,
          gd   |-> acc.gd]
    ELSE acc

\* One pass of the loop body for scale exponent i; acc = [link, num, den].
ScanStep(layer, i, acc) ==
    LET dv == Pow2(i) IN
    IF layer % dv = 0
    THEN [link |-> Append(acc.link, layer - dv),
          num  |-> IF i > 0 THEN acc.num * acc.gn ELSE acc.num,
          den  |-> IF i > 0 THEN acc.den * acc.gd ELSE acc.den,
          gn   |-> acc.gn,
          gd   |-> acc.gd]
    ELSE acc

\* for i in range(10): ...
RECURSIVE Scan(_, _, _)
Scan(layer, i, acc) ==
    IF i >= ScaleBound THEN acc
    ELSE Scan(layer, i + 1, ScanStep(layer, i, acc))

\* The scan of layer started from out_channels = growth_rate, link = [].
ScanOf(layer, growth_rate, grmul) ==
    Scan(layer, 0, [link |-> <<>>, num |-> growth_rate, den |-> 1,
                    gn |-> grmul[1], gd |-> grmul[2]])

\* RoundEven without the + 1: int(int(out_channels) / 2) * 2.
RoundEvenDown(num, den) == ((num \div den) \div 2) * 2

\* int(int(out_channels + 1) / 2) * 2 for out_channels = num/den > 0
\* (int() truncates, which is floor for a positive value).
RoundEven(num, den) == (((num + den) \div den) \div 2) * 2

\* get_link(layer, base_ch, growth_rate, grmul) = [out, inch, link]
RECURSIVE get_link(_, _, _, _)
get_link(layer, base_ch, growth_rate, grmul) ==
    IF layer = 0 THEN [out |-> base_ch, inch |-> 0, link |-> <<>>]
    ELSE LET s == ScanOf(layer, growth_rate, grmul)
             chs == [j \in 1..Len(s.link) |->
                        get_link(s.link[j], base_ch, growth_rate, grmul).out]
         IN [out  |-> RoundEven(s.num, s.den),
             inch |-> SumSeq(chs),
             link |-> s.link]

----------------------------------------------------------------------------
(* HarDBlock.__init__ *)

\* if (i % 2 == 0) or (i == n_layers - 1): the layer built in iteration i
\* (layer index i+1) counts towards self.out_channels.
CountsInDeclared(i, n_layers) == (i % 2 = 0) \/ (i = n_layers - 1)

\* for i in range(n_layers): ...  b = [links, layers, out_channels]
RECURSIVE InitLoop(_, _, _, _, _, _, _)
InitLoop(i, b, in_channels, growth_rate, grmul, n_layers, dwconv) ==
    IF i >= n_layers THEN b
    ELSE LET g == get_link(i + 1, in_channels, growth_rate, grmul)
             nb == [links |-> Append(b.links, g.link),
                    layers |-> Append(b.layers,
                                  [inch |-> g.inch, outch |-> g.out, dw |-> dwconv]),
                    out_channels |-> IF CountsInDeclared(i, n_layers)
                                     THEN b.out_channels + g.out
                                     ELSE b.out_channels]
         IN InitLoop(i + 1, nb, in_channels, growth_rate, grmul, n_layers, dwconv)

\* The block __init__ leaves behind.
HarDBlockInit(in_channels, growth_rate, grmul, n_layers, dwconv) ==
    InitLoop(0, [links |-> <<>>, layers |-> <<>>, out_channels |-> 0],
             in_channels, growth_rate, grmul, n_layers, dwconv)

\* HarDBlock(in_channels, growth_rate, grmul, n_layers, keepBase, dwconv=dwconv)
Construct(in_channels, growth_rate, grmul, n_layers, kb, dwconv) ==
    /\ blk_pc = "unbuilt"
    /\ LET b == HarDBlockInit(in_channels, growth_rate, grmul, n_layers, dwconv) IN
        /\ keepBase' = kb
        /\ links' = b.links
        /\ layers' = b.layers
        /\ out_channels' = b.out_channels
    /\ cfg' = [in_channels |-> in_channels, growth_rate |-> growth_rate,
               grmul |-> grmul, n_layers |-> n_layers, dwconv |-> dwconv]
    /\ blk_pc' = "built"
    /\ UNCHANGED fwdVars
    /\ UNCHANGED netVars

\* get_out_ch
get_out_ch == out_channels

----------------------------------------------------------------------------
(* HarDBlock.forward *)

NoValue == [in_channels |-> 0, growth_rate |-> 0, grmul |-> <<1, 1>>,
            n_layers |-> 0, dwconv |-> FALSE]

\* Python list indexing s[i]: a negative index counts from the end.
PyInRange(s, i) == (i >= 0 /\ i < Len(s)) \/ (i < 0 /\ -i <= Len(s))
PyIndex(s, i) == IF i >= 0 THEN s[i + 1] ELSE s[Len(s) + i + 1]

\* layers_ = [x]
ForwardStart(xw) ==
    /\ blk_pc = "built"
    /\ fwd_pc \in {"idle", "done", "error"}
    /\ layers_' = <<xw>>
    /\ out_sel' = <<>>
    /\ out_w' = 0
    /\ fwd_pc' = "layers"
    /\ UNCHANGED blockVars
    /\ UNCHANGED netVars

\* Gathered reading layers_[i - 1] in place of layers_[i].
GatheredShifted(link, produced) ==
    [j \in 1..Len(link) |-> PyIndex(produced, link[j] - 1)]

\* tin: the tensors at the link indices of the layer about to run.
Gathered(link, produced) == [j \in 1..Len(link) |-> PyIndex(produced, link[j])]

\* One iteration of "for layer in range(len(self.layers))".  The transform
\* rejects an input whose channel count is not the in_channels it was built with.
ForwardLayer ==
    /\ fwd_pc = "layers"
    /\ Len(layers_) - 1 < Len(layers)
    /\ LET layer == Len(layers_) - 1
           link == links[layer + 1]
       IN IF link = <<>> \/ \E j \in 1..Len(link) : ~PyInRange(layers_, link[j])
          THEN /\ fwd_pc' = "error"
               /\ UNCHANGED layers_
          ELSE LET tin == Gathered(link, layers_)
                   x == IF Len(tin) > 1 THEN SumSeq(tin) ELSE tin[1]
               IN IF x = layers[layer + 1].inch
                  THEN /\ layers_' = Append(layers_, layers[layer + 1].outch)
                       /\ fwd_pc' = "layers"
                  ELSE /\ fwd_pc' = "error"
                       /\ UNCHANGED layers_
    /\ UNCHANGED <<out_sel, out_w>>
    /\ UNCHANGED blockVars
    /\ UNCHANGED netVars

\* Selected with the parity test i%2 == 0.
SelectedEven(i, t, kb) == (i = 0 /\ kb) \/ (i = t - 1) \/ (i % 2 = 0)

\* (i == 0 and self.keepBase) or (i == t-1) or (i%2 == 1)
Selected(i, t, kb) == (i = 0 /\ kb) \/ (i = t - 1) \/ (i % 2 = 1)

\* for i in range(t): if ...: out_.append(layers_[i])
RECURSIVE SelectLoop(_, _, _)
SelectLoop(i, t, kb) ==
    IF i >= t THEN <<>>
    ELSE IF Selected(i, t, kb) THEN <<i>> \o SelectLoop(i + 1, t, kb)
         ELSE SelectLoop(i + 1, t, kb)

\* The selection loop and the final torch.cat(out_, 1).
ForwardOutput ==
    /\ fwd_pc = "layers"
    /\ Len(layers_) - 1 >= Len(layers)
    /\ LET t == Len(layers_)
           sel == SelectLoop(0, t, keepBase)
       IN /\ out_sel' = sel
          /\ out_w' = SumSeq([j \in 1..Len(sel) |-> PyIndex(layers_, sel[j])])
    /\ fwd_pc' = "done"
    /\ UNCHANGED layers_
    /\ UNCHANGED blockVars
    /\ UNCHANGED netVars

----------------------------------------------------------------------------
(* HarDNet.__init__ *)

\* Values of arch the network machine is constructed with.
ArchInputs == {0, 39, 50, 68, 85, 100}

\* One entry of self.base.  p is a dropout probability in percent.
Stage(kind, inch, outch, kernel, stride, p) ==
    [kind |-> kind, inch |-> inch, outch |-> outch,
     kernel |-> kernel, stride |-> stride, p |-> p]

\* The locals of __init__ before any assignment; bound lists the assigned names.
NoLocals ==
    [raise |-> FALSE, bound |-> {},
     first_ch |-> <<>>, ch_list |-> <<>>, grmul |-> <<1, 1>>, gr |-> <<>>,
     n_layers |-> <<>>, downSamp |-> <<>>, drop_rate |-> 0,
     second_kernel |-> 0, max_pool |-> FALSE, blks |-> 0, ch |-> 0, i |-> 0]

ProfileNames == {"first_ch", "ch_list", "grmul", "gr", "n_layers", "downSamp"}

\* The three hyperparameter tables.  drop_rate is in percent; the arch == 39
\* branch assigns none.
HarDNet68 ==
    [NoLocals EXCEPT
        !.first_ch = <<32, 64>>,
        !.ch_list  = <<128, 256, 320, 640, 1024>>,
        !.grmul    = <<17, 10>>,
        !.gr       = <<14, 16, 20, 40, 160>>,
        !.n_layers = <<8, 16, 16, 16, 4>>,
        !.downSamp = <<1, 0, 1, 1, 0>>,
        !.drop_rate = 10,
        !.bound = ProfileNames \cup {"drop_rate"}]

HarDNet85 ==
    [NoLocals EXCEPT
        !.first_ch = <<48, 96>>,
        !.ch_list  = <<192, 256, 320, 480, 720, 1280>>,
        !.grmul    = <<17, 10>>,
        !.gr       = <<24, 24, 28, 36, 48, 256>>,
        !.n_layers = <<8, 16, 16, 16, 16, 4>>,
        !.downSamp = <<1, 0, 1, 0, 1, 0>>,
        !.drop_rate = 20,
        !.bound = ProfileNames \cup {"drop_rate"}]

HarDNet39 ==
    [NoLocals EXCEPT
        !.first_ch = <<24, 48>>,
        !.ch_list  = <<96, 320, 640, 1024>>,
        !.grmul    = <<8, 5>>,
        !.gr       = <<16, 20, 64, 160>>,
        !.n_layers = <<4, 16, 8, 4>>,
        !.downSamp = <<1, 1, 1, 0>>,
        !.bound = ProfileNames]

\* ProfileOf with the last branch a default (HarDNet85) instead of a raise.
ProfileOfDefault(arch) ==
    IF arch = 68 THEN HarDNet68
    ELSE IF arch = 39 THEN HarDNet39
    ELSE HarDNet85

\* The if/elif/else chain on arch.
ProfileOf(arch) ==
    IF arch = 68 THEN HarDNet68
    ELSE IF arch = 85 THEN HarDNet85
    ELSE IF arch = 39 THEN HarDNet39
    ELSE [NoLocals EXCEPT !.raise = TRUE]

\* HarDNet(depth_wise, arch, pretrained): the profile selection.
SelectProfile(arch, depth_wise, pretrained) ==
    /\ net_pc = "unbuilt"
    /\ net_args' = [arch |-> arch, depth_wise |-> depth_wise, pretrained |-> pretrained]
    /\ LET h == ProfileOf(arch) IN
        IF h.raise
        THEN /\ net_pc' = "error"
             /\ net_err' = "ValueError"
             /\ UNCHANGED <<hp, base>>
        ELSE /\ net_pc' = "stem"
             /\ hp' = h
             /\ UNCHANGED <<base, net_err>>
    /\ UNCHANGED blockVars
    /\ UNCHANGED fwdVars

\* second_kernel / max_pool / drop_rate after the depth_wise override.
Override(h, depth_wise) ==
    IF depth_wise
    THEN [h EXCEPT !.second_kernel = 1, !.max_pool = FALSE, !.drop_rate = 5,
                   !.bound = @ \cup {"second_kernel", "max_pool", "drop_rate"}]
    ELSE [h EXCEPT !.second_kernel = 3, !.max_pool = TRUE,
                   !.bound = @ \cup {"second_kernel", "max_pool"}]

\* The two stem transforms and the first downsampler.
StemItems(h) ==
    << Stage("conv", 3, h.first_ch[1], 3, 2, 0),
       Stage("conv", h.first_ch[1], h.first_ch[2], h.second_kernel, 1, 0),
       IF h.max_pool
       THEN Stage("maxpool", 0, 0, 3, 2, 0)
       ELSE Stage("dwconv", h.first_ch[2], h.first_ch[2], 3, 2, 0) >>

\* The override, blks = len(n_layers), the stem, ch = first_ch[1].
BuildStem ==
    /\ net_pc = "stem"
    /\ LET h == Override(hp, net_args.depth_wise) IN
        IF ~({"first_ch", "n_layers"} \subseteq h.bound)
        THEN /\ net_pc' = "error"
             /\ net_err' = "UnboundLocalError"
             /\ UNCHANGED <<hp, base>>
        ELSE /\ base' = StemItems(h)
             /\ hp' = [h EXCEPT !.blks = Len(h.n_layers), !.ch = h.first_ch[2],
                                !.i = 0, !.bound = @ \cup {"blks", "ch"}]
             /\ net_pc' = IF Len(h.n_layers) > 0 THEN "stages" ELSE "head"
             /\ UNCHANGED net_err
    /\ UNCHANGED net_args
    /\ UNCHANGED blockVars
    /\ UNCHANGED fwdVars

\* StageItems with the projection sized from the block's input width ch
\* instead of blk.get_out_ch().
StageItemsStaleCh(i, ch, h, arch, depth_wise) ==
    LET drop == IF i = h.blks - 1 /\ arch = 85
                THEN << Stage("dropout", 0, 0, 0, 0, 10) >> ELSE <<>>
        down == IF h.downSamp[i + 1] = 1
                THEN IF h.max_pool
                     THEN << Stage("maxpool", 0, 0, 2, 2, 0) >>
                     ELSE << Stage("dwconv", h.ch_list[i + 1], h.ch_list[i + 1], 3, 2, 0) >>
                ELSE <<>>
    IN << Stage("block", ch,
                HarDBlockInit(ch, h.gr[i + 1], h.grmul, h.n_layers[i + 1],
                              depth_wise).out_channels, 0, 0, 0) >> \o drop
       \o << Stage("conv", ch, h.ch_list[i + 1], 1, 1, 0) >> \o down

\* What iteration i (0-based) of the block loop appends to self.base.
StageItems(i, ch, h, arch, depth_wise) ==
    LET blk == HarDBlockInit(ch, h.gr[i + 1], h.grmul, h.n_layers[i + 1], depth_wise)
        bch == blk.out_channels
        drop == IF i = h.blks - 1 /\ arch = 85
                THEN << Stage("dropout", 0, 0, 0, 0, 10) >> ELSE <<>>
        down == IF h.downSamp[i + 1] = 1
                THEN IF h.max_pool
                     THEN << Stage("maxpool", 0, 0, 2, 2, 0) >>
                     ELSE << Stage("dwconv", h.ch_list[i + 1], h.ch_list[i + 1], 3, 2, 0) >>
                ELSE <<>>
    IN << Stage("block", ch, bch, 0, 0, 0) >> \o drop
       \o << Stage("conv", bch, h.ch_list[i + 1], 1, 1, 0) >> \o down

\* One iteration of "for i in range(blks)".
BuildStage ==
    /\ net_pc = "stages"
    /\ IF ~({"gr", "grmul", "ch_list", "downSamp"} \subseteq hp.bound)
       THEN /\ net_pc' = "error"
            /\ net_err' = "UnboundLocalError"
            /\ UNCHANGED <<hp, base>>
       ELSE /\ base' = base \o StageItems(hp.i, hp.ch, hp, net_args.arch,
                                          net_args.depth_wise)
            /\ hp' = [hp EXCEPT !.ch = hp.ch_list[hp.i + 1], !.i = hp.i + 1]
            /\ net_pc' = IF hp.i + 1 < hp.blks THEN "stages" ELSE "head"
            /\ UNCHANGED net_err
    /\ UNCHANGED net_args
    /\ UNCHANGED blockVars
    /\ UNCHANGED fwdVars

\* ch = ch_list[blks-1]; pool + flatten + Dropout(drop_rate) + Linear(ch, 1000).
BuildHead ==
    /\ net_pc = "head"
    /\ IF ~({"ch_list", "drop_rate"} \subseteq hp.bound)
       THEN /\ net_pc' = "error"
            /\ net_err' = "UnboundLocalError"
            /\ UNCHANGED <<hp, base>>
       ELSE /\ base' = Append(base, Stage("head", hp.ch_list[hp.blks], 1000, 0, 0,
                                          hp.drop_rate))
            /\ hp' = [hp EXCEPT !.ch = hp.ch_list[hp.blks]]
            /\ net_pc' = IF net_args.pretrained THEN "loading" ELSE "built"
            /\ UNCHANGED net_err
    /\ UNCHANGED net_args
    /\ UNCHANGED blockVars
    /\ UNCHANGED fwdVars

\* The keys of checkpoint_urls a codename "HarDNet%d" [+ "DS"] can match, as
\* <<arch, depth_wise>> ("HarDNet39_DS" matches no codename).
CheckpointUrls == {<<68, FALSE>>, <<68, TRUE>>, <<85, FALSE>>}

\* The pretrained branch.  Whether torch has a hub, whether the fetch, the
\* file lookup and load_state_dict succeed is decided by the environment.
LoadWeights(has_hub, file_exists, load_ok) ==
    /\ net_pc = "loading"
    /\ LET codename == <<net_args.arch, net_args.depth_wise>>
           err == IF has_hub
                  THEN IF codename \notin CheckpointUrls THEN "KeyError"
                       ELSE IF load_ok THEN "none" ELSE "LoadError"
                  ELSE IF ~file_exists THEN "FileNotFoundError"
                       ELSE IF load_ok THEN "none" ELSE "LoadError"
       IN /\ net_err' = err
          /\ net_pc' = IF err = "none" THEN "loaded" ELSE "error"
    /\ UNCHANGED <<net_args, hp, base>>
    /\ UNCHANGED blockVars
    /\ UNCHANGED fwdVars

----------------------------------------------------------------------------
(* Initial state and the two machines *)

NetIdle ==
    /\ net_pc = "unbuilt"
    /\ net_args = [arch |-> 0, depth_wise |-> FALSE, pretrained |-> FALSE]
    /\ hp = NoLocals
    /\ base = <<>>
    /\ net_err = "none"

BlockIdle ==
    /\ blk_pc = "unbuilt"
    /\ cfg = NoValue
    /\ keepBase = FALSE
    /\ links = <<>>
    /\ layers = <<>>
    /\ out_channels = 0
    /\ fwd_pc = "idle"
    /\ layers_ = <<>>
    /\ out_sel = <<>>
    /\ out_w = 0

Init == BlockIdle /\ NetIdle

NextBlock ==
    \/ \E ic \in BaseChs, gr \in GrowthRates, gm \in GrMuls, n \in NLayers,
          kb \in BOOLEAN, dw \in BOOLEAN : Construct(ic, gr, gm, n, kb, dw)
    \/ \E xw \in BaseChs : ForwardStart(xw)
    \/ ForwardLayer
    \/ ForwardOutput

SpecBlock == Init /\ [][NextBlock]_vars

NextNet ==
    \/ \E a \in ArchInputs, dw \in BOOLEAN, pt \in BOOLEAN : SelectProfile(a, dw, pt)
    \/ BuildStem
    \/ BuildStage
    \/ BuildHead
    \/ \E hub \in BOOLEAN, fe \in BOOLEAN, ok \in BOOLEAN : LoadWeights(hub, fe, ok)

SpecNet == Init /\ [][NextNet]_vars

----------------------------------------------------------------------------
(* Properties of the block machine (SpecBlock) *)

Even(n) == n % 2 = 0

RECURSIVE PowInt(_, _)
PowInt(b, e) == IF e = 0 THEN 1 ELSE b * PowInt(b, e - 1)

\* k: the number of scale exponents i in 1..9 with 2^i dividing layer.
ScaleHits(layer) == Cardinality({i \in 1..9 : layer % Pow2(i) = 0})

\* The raw accumulated width growth_rate * grmul^k of a layer of the built
\* block, as the fraction RawNum / RawDen.
RawNum(layer) == cfg.growth_rate * PowInt(cfg.grmul[1], ScaleHits(layer))
RawDen(layer) == PowInt(cfg.grmul[2], ScaleHits(layer))

SeqSet(q) == {q[j] : j \in 1..Len(q)}

\* C1: for a block built with n_layers >= 1 and any keepBase, the declared
\* output-channel total (get_out_ch) equals the channel count of the tensor
\* forward returns.
C1_DeclaredEqualsForward ==
    (fwd_pc = "done" /\ cfg.n_layers >= 1) => out_w = get_out_ch

\* C2: for every layer >= 1 of a built block the link list is non-empty,
\* contains layer-1, and every index in it is >= 0 and < layer.
C2_LinksInRange ==
    blk_pc = "built" =>
        \A L \in 1..Len(links) :
            /\ links[L] # <<>>
            /\ (L - 1) \in SeqSet(links[L])
            /\ \A j \in 1..Len(links[L]) : links[L][j] >= 0 /\ links[L][j] < L

\* A built block whose layer 4 links to three earlier layers and whose
\* layer 3 links to one.
C2_Witness ==
    /\ blk_pc = "built"
    /\ Len(links) >= 4
    /\ Len(links[4]) = 3
    /\ Len(links[3]) = 1

\* C3 as stated: every layer's out_channels is an even integer >= the raw
\* accumulated width growth_rate * grmul^k.
C3_Original ==
    blk_pc = "built" =>
        \A L \in 1..Len(layers) :
            /\ Even(layers[L].outch)
            /\ layers[L].outch * RawDen(L) >= RawNum(L)

\* C3 amended: every layer's out_channels is the least even integer >= the
\* integer part (floor) of the raw width; it is >= the raw width itself
\* whenever the raw width is an integer.
C3_EvenAtLeastFloor ==
    blk_pc = "built" =>
        \A L \in 1..Len(layers) :
            LET fl == RawNum(L) \div RawDen(L) IN
            /\ Even(layers[L].outch)
            /\ layers[L].outch >= fl
            /\ layers[L].outch <= fl + 1
            /\ (RawNum(L) % RawDen(L) = 0 =>
                    layers[L].outch * RawDen(L) >= RawNum(L))

\* A built block with a non-integer growth multiplier holding a layer whose
\* width was rounded below its raw width, and a layer with an odd integer raw
\* width rounded up.
C3_Witness ==
    /\ blk_pc = "built"
    /\ cfg.grmul[2] > 1
    /\ \E L \in 1..Len(layers) : layers[L].outch * RawDen(L) < RawNum(L)
    /\ \E L \in 1..Len(layers) :
          RawDen(L) = 1 /\ ~Even(RawNum(L)) /\ layers[L].outch = RawNum(L) + 1

\* C4: constructing a block with n_layers < 1 does not return a block.
C4_NoBlockBelowOneLayer ==
    blk_pc = "built" => cfg.n_layers >= 1

\* C5: with keepBase false and n_layers = N >= 1, forward concatenates exactly
\* the indices {N} united with the odd indices in 1..N-1, each once, and never
\* index 0.
C5_SelectedSet ==
    (fwd_pc = "done" /\ ~keepBase /\ Len(layers) >= 1) =>
        LET N == Len(layers) IN
        /\ SeqSet(out_sel) = {N} \cup {i \in 1..(N - 1) : i % 2 = 1}
        /\ Cardinality(SeqSet(out_sel)) = Len(out_sel)
        /\ 0 \notin SeqSet(out_sel)
        /\ (N = 1 => out_sel = <<1>>)

\* forward finished on a 4-layer block without keepBase and selected 1, 3, 4.
C5_Witness ==
    /\ fwd_pc = "done"
    /\ ~keepBase
    /\ Len(layers) = 4
    /\ out_sel = <<1, 3, 4>>

Ascending(q) == \A j \in 1..(Len(q) - 1) : q[j] < q[j + 1]
Descending(q) == \A j \in 1..(Len(q) - 1) : q[j] > q[j + 1]

\* C8 as stated: every stored link list is in ascending index order, and for
\* n_layers = 4 the lists of layers 1..4 are [0], [0,1], [2], [0,2,3].
C8_Original ==
    blk_pc = "built" =>
        /\ \A L \in 1..Len(links) : Ascending(links[L])
        /\ (Len(links) = 4 =>
                links = << <<0>>, <<0, 1>>, <<2>>, <<0, 2, 3>> >>)

\* C8 amended: every stored link list is in strictly descending index order
\* (nearest layer first), and for n_layers = 4 the lists of layers 1..4 are
\* [0], [1,0], [2], [3,2,0].
C8_LinksDescending ==
    blk_pc = "built" =>
        /\ \A L \in 1..Len(links) : Descending(links[L])
        /\ (Len(links) = 4 =>
                links = << <<0>>, <<1, 0>>, <<2>>, <<3, 2, 0>> >>)

\* forward is about to gather the three sources of layer 4 of a 4-layer block.
C8_Witness ==
    /\ blk_pc = "built"
    /\ Len(links) = 4
    /\ fwd_pc = "layers"
    /\ Len(layers_) = 4
    /\ Len(links[4]) = 3

\* C9: during forward on an input of width base_channels, when layer L is
\* about to be processed the produced list holds the input and the outputs of
\* layers 1..L-1, every link index of L is one of 0..L-1, and the gathered
\* input has the in_channels L's transform was built with; no transform
\* rejects its input.
C9_GatherMatchesInChannels ==
    (blk_pc = "built" /\ fwd_pc \in {"layers", "error"}
        /\ layers_[1] = cfg.in_channels) =>
        /\ fwd_pc # "error"
        /\ \A k \in 1..(Len(layers_) - 1) : layers_[k + 1] = layers[k].outch
        /\ (Len(layers_) <= Len(layers) =>
              LET L == Len(layers_)
                  link == links[L]
              IN /\ \A j \in 1..Len(link) : link[j] \in 0..(L - 1)
                 /\ SumSeq([j \in 1..Len(link) |-> layers_[link[j] + 1]])
                        = layers[L].inch)

\* forward, given the block's input width, is about to process a layer with
\* several sources after having produced at least five layers.
C9_Witness ==
    /\ blk_pc = "built"
    /\ fwd_pc = "layers"
    /\ layers_[1] = cfg.in_channels
    /\ Len(layers_) <= Len(layers)
    /\ Len(layers_) >= 6
    /\ Len(links[Len(layers_)]) >= 2

----------------------------------------------------------------------------
(* Properties of the network machine (SpecNet) *)

Supported == {39, 68, 85}
Downsamplers == {"maxpool", "dwconv"}

BlockPositions == {q \in 1..Len(base) : base[q].kind = "block"}

\* 1-based stage number of the block at position q of self.base.
StageOf(q) == Cardinality({r \in 1..q : base[r].kind = "block"})

\* The stage at position q is the 1x1 projection of the block at position b,
\* and a downsampler follows it exactly when the stage's downSamp flag is 1.
ProjectionAt(q, b) ==
    /\ q <= Len(base)
    /\ base[q].kind = "conv"
    /\ base[q].kernel = 1
    /\ base[q].inch = base[b].outch
    /\ base[q].outch = hp.ch_list[StageOf(b)]
    /\ (hp.downSamp[StageOf(b)] = 1) <=>
            (q + 1 <= Len(base) /\ base[q + 1].kind \in Downsamplers)

\* C6 as stated: for every supported profile each block in the stage list is
\* immediately followed by its 1x1 projection (block's declared width ->
\* ch_list[i]), itself followed only conditionally by a downsampler.
C6_Original ==
    net_args.arch \in Supported =>
        \A b \in BlockPositions : ProjectionAt(b + 1, b)

\* C6 amended: each block is followed by its 1x1 projection, immediately,
\* except that for arch 85 exactly one Dropout stage sits between the last
\* block and its projection.
C6_ProjectionFollowsBlock ==
    net_args.arch \in Supported =>
        \A b \in BlockPositions :
            IF net_args.arch = 85 /\ StageOf(b) = hp.blks
            THEN /\ b + 1 <= Len(base)
                 /\ base[b + 1].kind = "dropout"
                 /\ ProjectionAt(b + 2, b)
            ELSE ProjectionAt(b + 1, b)

\* The arch 85 stage list is complete: its last block is followed by a
\* Dropout and then the projection, an earlier one directly by its projection
\* and a downsampler.
C6_Witness ==
    /\ net_args.arch = 85
    /\ net_pc = "built"
    /\ \E b \in BlockPositions :
          StageOf(b) = 6 /\ base[b + 1].kind = "dropout" /\ base[b + 2].kind = "conv"
    /\ \E b \in BlockPositions :
          StageOf(b) = 1 /\ base[b + 1].kind = "conv"
              /\ base[b + 2].kind \in Downsamplers

\* C7: construction with an arch outside {39, 68, 85} fails with ValueError
\* before any stage is appended and before any weight loading, whatever
\* depth_wise and pretrained are.
C7_UnsupportedArchRaises ==
    (net_pc # "unbuilt" /\ net_args.arch \notin Supported) =>
        /\ net_pc = "error"
        /\ net_err = "ValueError"
        /\ base = <<>>

\* An unsupported arch was given with depth_wise and pretrained set, and
\* construction has failed.
C7_Witness ==
    /\ net_args.arch = 50
    /\ net_args.depth_wise
    /\ net_args.pretrained
    /\ net_pc = "error"
    /\ net_err = "ValueError"

\* C10: for arch 39, 68, 85 and either depth_wise, construction with
\* pretrained = False never fails: no hyperparameter is read before it is
\* assigned.
C10_BuildCompletes ==
    (net_args.arch \in Supported /\ ~net_args.pretrained) => net_pc # "error"

====
